---- MODULE Spec2Model ----
(***************************************************************************)
(* SRAM PUF analysis scripts: capture decoding, cohort loading and length  *)
(* normalisation, per-bit statistics, Hamming distances, majority-vote     *)
(* fingerprint and XOR debiasing.                                          *)
(*                                                                         *)
(* Bit sequences are sequences over {0,1}; a cohort is a sequence of bit   *)
(* sequences; a capture text is a sequence of one-character strings.       *)
(* Rates and distances are kept as exact fractions [num, den].             *)
(***************************************************************************)
EXTENDS Integers, Sequences, FiniteSets, TLC

\* ---------------------------------------------------------------- bounds
MaxTextLen == 5      \* longest capture text drawn in the decoder specification
MaxFiles == 3        \* most capture files in the card1 directory
MaxFiles2 == 2       \* most capture files in the card2 directory
MaxBits == 4         \* longest bit sequence handed to hamming_distance
MaxBytes == 2        \* longest byte array rendered in hexadecimal and decoded
MaxMembers == 11     \* most members of a one-bit cohort handed to analyze_flip_rate
MaxWideMembers == 3  \* most members of a two-bit cohort handed to analyze_flip_rate
MaxReordered == 3    \* most members of a cohort whose statistics are taken in two orders
MaxFpBits == 9       \* longest fingerprint handed to fingerprint_hash
MaxDebiased == 4     \* most one-byte members of a cohort handed to create_xor_mask

VARIABLES
    pc,              \* position of the running script
    script,          \* which analysis script is running ("none" before the branch)
    text,            \* content of the capture file handed to load_sram_file
    decoded,         \* its return value
    args,            \* arguments of the function called on its own
    ret,             \* its return value
    dir1, dir2,      \* directory-ordered capture contents of card1 / card2
    samples,         \* samples[c]: the cohort of card c (card1_samples, card2_samples)
    min_len,         \* the common length computed by the script
    error,           \* the exception that ended the script, "none" otherwise
    fp,              \* fp[c]: fingerprint / majority vector of card c (fp1, fp2)
    saved,           \* names of the .npy files written so far
    intra_hd,        \* intra_hd[c]: intra-distance list of card c (intra1, intra2)
    inter_hd,        \* inter-distance list between card1 and card2
    rng,             \* the process-wide numpy RandomState
    mask,            \* mask[c]: XOR mask of card c (mask1, mask2)
    debiased,        \* debiased[c]: the cohort of card c after apply_xor_mask
    intra_orig,      \* intra_orig[c], intra_after[c]: create_comparison_figure's
    intra_after,     \*   intra-distances of the original and of the processed cohort
    inter_before,    \* inter-distances before and after debiasing
    inter_after,
    flip,            \* flip[c]: what analyze_flip_rate returned for card c
    unstable,        \* unstable[c]: indices found by find_unstable_bits
    unstable_samples \* unstable_samples[c]: the cohort restricted to those indices

inputs == <<text, decoded, dir1, dir2, args, ret>>

\* the variables holding what the scripts compute and persist
outputs == <<fp, saved, intra_hd, inter_hd, mask, debiased, intra_orig, intra_after,
             inter_before, inter_after, flip, unstable, unstable_samples>>

vars == <<pc, script, samples, min_len, error, rng, inputs, outputs>>

Cards == {1, 2}
None == "none"

\* a value that may not be there yet: <<>> or <<value>>
Nothing == <<>>
Just(x) == <<x>>

\* exact fraction num/den; 0/0 stands for the float nan
Frac(n, d) == [num |-> n, den |-> d]
Less(a, b) == a.num * b.den < b.num * a.den        \* a < b, for den > 0

\* ------------------------------------------------------- generic helpers
Min(a, b) == IF a <= b THEN a ELSE b

RECURSIVE Pow2(_)
Pow2(k) == IF k = 0 THEN 1 ELSE 2 * Pow2(k - 1)

RECURSIVE SumSeq(_)
SumSeq(s) == IF s = <<>> THEN 0 ELSE Head(s) + SumSeq(Tail(s))

Prefix(s, n) == SubSeq(s, 1, Min(n, Len(s)))          \* s[:n]

\* ============================================================ BitDecoder
\* content.replace(' ', '').replace('\r', '').replace('\n', '').replace('.', '')
Separators == {" ", "\r", "\n", "."}

StripSeparators(content) == SelectSeq(content, LAMBDA ch : ch \notin Separators)

HexDigitValue ==
    ("0" :> 0) @@ ("1" :> 1) @@ ("2" :> 2) @@ ("3" :> 3) @@ ("4" :> 4) @@
    ("5" :> 5) @@ ("6" :> 6) @@ ("7" :> 7) @@ ("8" :> 8) @@ ("9" :> 9) @@
    ("A" :> 10) @@ ("B" :> 11) @@ ("C" :> 12) @@ ("D" :> 13) @@ ("E" :> 14) @@
    ("F" :> 15) @@ ("a" :> 10) @@ ("b" :> 11) @@ ("c" :> 12) @@ ("d" :> 13) @@
    ("e" :> 14) @@ ("f" :> 15)

HexChars == DOMAIN HexDigitValue

\* characters int() strips from both ends of its argument
PyWhitespace == {" ", "\t", "\n", "\r", "\f"}

\* int(hex_str[i:i+2], 16) on a two-character slice <<a, b>>: Python's int accepts
\* surrounding whitespace and one leading sign. The result is <<"int", value>>, or
\* ValueError when the literal is invalid.
ValueError == <<"ValueError">>

PyInt(v) == <<"int", v>>

ParseInt16(a, b) ==
    IF a \in HexChars /\ b \in HexChars THEN PyInt(16 * HexDigitValue[a] + HexDigitValue[b])
    ELSE IF a \in PyWhitespace /\ b \in HexChars THEN PyInt(HexDigitValue[b])
    ELSE IF a \in HexChars /\ b \in PyWhitespace THEN PyInt(HexDigitValue[a])
    ELSE IF a = "+" /\ b \in HexChars THEN PyInt(HexDigitValue[b])
    ELSE IF a = "-" /\ b \in HexChars THEN PyInt(0 - HexDigitValue[b])
    ELSE ValueError

\* for i in range(0, len(hex_str) - 1, 2): try append int(...) except ValueError: continue
\* (i is the 1-based offset of the slice)
RECURSIVE ParseBytes(_, _)
ParseBytes(hex_str, i) ==
    IF i > Len(hex_str) - 1 THEN <<>>
    ELSE LET byte == ParseInt16(hex_str[i], hex_str[i + 1])
         IN  IF byte = ValueError THEN ParseBytes(hex_str, i + 2)
             ELSE <<byte[2]>> \o ParseBytes(hex_str, i + 2)

\* for i in range(7, -1, -1): bits.append((byte >> i) & 1)
ByteBits(byte) == [k \in 1..8 |-> (byte \div Pow2(8 - k)) % 2]

RECURSIVE ExpandBytes(_)
ExpandBytes(bytes_list) ==
    IF bytes_list = <<>> THEN <<>>
    ELSE ByteBits(Head(bytes_list)) \o ExpandBytes(Tail(bytes_list))

load_sram_file(content) == ExpandBytes(ParseBytes(StripSeparators(content), 1))

\* ============================================================= SampleSet
\* a byte of the file that is not valid text: f.read() raises UnicodeDecodeError
InvalidByte == "\\x80"

\* load_sram_file(filepath) raises instead of returning
Raises(content) == \E k \in 1..Len(content) : content[k] = InvalidByte

\* variant: loading stops at the first capture that cannot be used
RECURSIVE load_all_samples_abort(_)
load_all_samples_abort(directory) ==
    IF directory = <<>> THEN <<>>
    ELSE IF Raises(Head(directory)) \/ Len(load_sram_file(Head(directory))) = 0 THEN <<>>
    ELSE <<load_sram_file(Head(directory))>> \o load_all_samples_abort(Tail(directory))

\* load_all_samples: the directory is its ordered capture contents; a capture that
\* decodes to no bit is left out (if len(bits) > 0: samples.append(bits)), and so
\* is one whose decoding raises (except: pass).
RECURSIVE load_all_samples(_)
load_all_samples(directory) ==
    IF directory = <<>> THEN <<>>
    ELSE IF Raises(Head(directory)) THEN load_all_samples(Tail(directory))
    ELSE LET bits == load_sram_file(Head(directory))
         IN  (IF Len(bits) > 0 THEN <<bits>> ELSE <<>>) \o load_all_samples(Tail(directory))

\* the smallest member length of a non-empty cohort
RECURSIVE MinOfLens(_)
MinOfLens(cohort) ==
    IF Len(cohort) = 1 THEN Len(cohort[1])
    ELSE Min(Len(Head(cohort)), MinOfLens(Tail(cohort)))

\* variant: min(..., default=0), an empty cohort yields length 0 instead of raising
MinSampleLenDefault(cohort) ==
    IF cohort = <<>> THEN PyInt(0) ELSE PyInt(MinOfLens(cohort))

\* min(len(s) for s in samples): ValueError on an empty cohort
MinSampleLen(cohort) ==
    IF cohort = <<>> THEN ValueError ELSE PyInt(MinOfLens(cohort))

\* variant: s[-min_len:], the last n bits are kept instead of the first
TruncateTail(cohort, n) ==
    [k \in 1..Len(cohort) |->
        SubSeq(cohort[k], Len(cohort[k]) - Min(n, Len(cohort[k])) + 1, Len(cohort[k]))]

\* [s[:min_len] for s in samples]
Truncate(cohort, n) == [k \in 1..Len(cohort) |-> Prefix(cohort[k], n)]

\* ====================================================== StatisticsEngine
\* number of members with bit 1 at position i
Ones(cohort, i) == SumSeq([k \in 1..Len(cohort) |-> cohort[k][i]])

\* np.mean(samples_array, axis=0), for a non-empty cohort of equal-length members
MeanPerBit(cohort) ==
    [i \in 1..Len(cohort[1]) |-> Frac(Ones(cohort, i), Len(cohort))]

\* variant: per_bit_mean > 0.5, a tie resolves to 0
compute_fingerprint_strict(cohort) ==
    LET per_bit_mean == MeanPerBit(cohort)
    IN  [i \in 1..Len(per_bit_mean) |->
            IF Less(Frac(1, 2), per_bit_mean[i]) THEN 1 ELSE 0]

\* variant: the first capture is taken as the fingerprint
compute_fingerprint_first(cohort) == cohort[1]

\* (per_bit_mean >= 0.5).astype(np.uint8)
compute_fingerprint(cohort) ==
    LET per_bit_mean == MeanPerBit(cohort)
    IN  [i \in 1..Len(per_bit_mean) |->
            IF ~Less(per_bit_mean[i], Frac(1, 2)) THEN 1 ELSE 0]

\* variant: np.packbits(fingerprint, bitorder='little')
packbits_little(bits) ==
    [k \in 1..((Len(bits) + 7) \div 8) |->
        SumSeq([j \in 1..8 |->
            IF 8 * (k - 1) + j <= Len(bits) THEN bits[8 * (k - 1) + j] * Pow2(j - 1) ELSE 0])]

\* variant: the bits after the last whole byte are dropped
packbits_floor(bits) ==
    [k \in 1..(Len(bits) \div 8) |->
        SumSeq([j \in 1..8 |-> bits[8 * (k - 1) + j] * Pow2(8 - j)])]

\* np.packbits(fingerprint): eight bits per byte, the first bit the most
\* significant, the last byte filled with zero bits
packbits(bits) ==
    [k \in 1..((Len(bits) + 7) \div 8) |->
        SumSeq([j \in 1..8 |->
            IF 8 * (k - 1) + j <= Len(bits) THEN bits[8 * (k - 1) + j] * Pow2(8 - j) ELSE 0])]

\* hashlib.sha256(byte_array.tobytes()).hexdigest(): the digest stands for the
\* bytes it was computed from (SHA-256 taken as injective)
fingerprint_hash(fingerprint) == <<"sha256", packbits(fingerprint)>>

\* ========================================================= DistanceEngine
\* np.sum(bits1[:min_len] != bits2[:min_len])
Differing(bits1, bits2, n) == Cardinality({i \in 1..n : bits1[i] # bits2[i]})

\* variant: the count of differing positions is divided by len(bits1)
hamming_distance_len1(bits1, bits2) ==
    LET n == Min(Len(bits1), Len(bits2))
    IN  Frac(Differing(bits1, bits2, n), Len(bits1))

\* hamming_distance of puf_intra_HD, puf_inter_HD and the two debias scripts:
\* the division of a numpy integer by 0 warns and yields nan, it does not raise
hamming_distance(bits1, bits2) ==
    LET n == Min(Len(bits1), Len(bits2))
    IN  Frac(Differing(bits1, bits2, n), n)

\* itertools.combinations(range(n), 2), as 1-based index pairs
RECURSIVE CombinationsFrom(_, _, _)
CombinationsFrom(i, j, n) ==
    IF i >= n THEN <<>>
    ELSE IF j > n THEN CombinationsFrom(i + 1, i + 2, n)
    ELSE <<<<i, j>>>> \o CombinationsFrom(i, j + 1, n)

\* variant: itertools.product(range(n), repeat=2) without the diagonal
OrderedPairs2(n) ==
    SelectSeq([k \in 1..(n * n) |-> <<((k - 1) \div n) + 1, ((k - 1) % n) + 1>>],
              LAMBDA p : p[1] # p[2])

Combinations2(n) == CombinationsFrom(1, 2, n)

compute_intra_hd(cohort) ==
    LET pairs == Combinations2(Len(cohort))
    IN  [k \in 1..Len(pairs) |-> hamming_distance(cohort[pairs[k][1]], cohort[pairs[k][2]])]

\* variant: the loops nested the other way round (samples2 outermost)
RECURSIVE compute_inter_hd_swapped(_, _)
compute_inter_hd_swapped(samples1, samples2) ==
    IF samples2 = <<>> THEN <<>>
    ELSE [k \in 1..Len(samples1) |-> hamming_distance(samples1[k], Head(samples2))]
         \o compute_inter_hd_swapped(samples1, Tail(samples2))

\* for s1 in samples1: for s2 in samples2: distances.append(...)
RECURSIVE compute_inter_hd(_, _)
compute_inter_hd(samples1, samples2) ==
    IF samples1 = <<>> THEN <<>>
    ELSE [k \in 1..Len(samples2) |-> hamming_distance(Head(samples1), samples2[k])]
         \o compute_inter_hd(Tail(samples1), samples2)

\* ==================================================== StabilityClassifier
\* variant: stable_mask = flip_rate <= 0.1
analyze_flip_rate_inclusive(cohort) ==
    LET num_samples == Len(cohort)
        per_bit_mean == MeanPerBit(cohort)
        majority_value == [i \in 1..Len(per_bit_mean) |->
                              IF ~Less(per_bit_mean[i], Frac(1, 2)) THEN 1 ELSE 0]
        \* for sample in samples_array: flip_count += (sample != majority_value)
        flip_count == [i \in 1..Len(per_bit_mean) |->
                          Cardinality({k \in 1..num_samples : cohort[k][i] # majority_value[i]})]
        flip_rate == [i \in 1..Len(flip_count) |-> Frac(flip_count[i], num_samples)]
    IN  [flip_rate |-> flip_rate,
         stable_mask |-> [i \in 1..Len(flip_rate) |-> ~Less(Frac(1, 10), flip_rate[i])],
         majority_value |-> majority_value,
         stable |-> Cardinality({i \in 1..Len(flip_rate) : Less(flip_rate[i], Frac(1, 10))}),
         unstable |-> Cardinality({i \in 1..Len(flip_rate) : ~Less(flip_rate[i], Frac(1, 10))})]

\* variant: flip_count += (sample == majority_value)
analyze_flip_rate_agree(cohort) ==
    LET num_samples == Len(cohort)
        per_bit_mean == MeanPerBit(cohort)
        majority_value == [i \in 1..Len(per_bit_mean) |->
                              IF ~Less(per_bit_mean[i], Frac(1, 2)) THEN 1 ELSE 0]
        flip_count == [i \in 1..Len(per_bit_mean) |->
                          Cardinality({k \in 1..num_samples : cohort[k][i] = majority_value[i]})]
        flip_rate == [i \in 1..Len(flip_count) |-> Frac(flip_count[i], num_samples)]
    IN  [flip_rate |-> flip_rate,
         stable_mask |-> [i \in 1..Len(flip_rate) |-> Less(flip_rate[i], Frac(1, 10))],
         majority_value |-> majority_value,
         stable |-> Cardinality({i \in 1..Len(flip_rate) : Less(flip_rate[i], Frac(1, 10))}),
         unstable |-> Cardinality({i \in 1..Len(flip_rate) : ~Less(flip_rate[i], Frac(1, 10))})]

\* analyze_flip_rate(samples, ...): majority vector, per-bit flip rate, stable mask
analyze_flip_rate(cohort) ==
    LET num_samples == Len(cohort)
        per_bit_mean == MeanPerBit(cohort)
        majority_value == [i \in 1..Len(per_bit_mean) |->
                              IF ~Less(per_bit_mean[i], Frac(1, 2)) THEN 1 ELSE 0]
        \* for sample in samples_array: flip_count += (sample != majority_value)
        flip_count == [i \in 1..Len(per_bit_mean) |->
                          Cardinality({k \in 1..num_samples : cohort[k][i] # majority_value[i]})]
        flip_rate == [i \in 1..Len(flip_count) |-> Frac(flip_count[i], num_samples)]
    IN  [flip_rate |-> flip_rate,
         stable_mask |-> [i \in 1..Len(flip_rate) |-> Less(flip_rate[i], Frac(1, 10))],
         majority_value |-> majority_value,
         stable |-> Cardinality({i \in 1..Len(flip_rate) : Less(flip_rate[i], Frac(1, 10))}),
         unstable |-> Cardinality({i \in 1..Len(flip_rate) : ~Less(flip_rate[i], Frac(1, 10))})]

\* variant: threshold <= mean <= 1 - threshold
find_unstable_bits_inclusive(cohort, threshold) ==
    LET mean_per_bit == MeanPerBit(cohort)
    IN  SelectSeq([i \in 1..Len(mean_per_bit) |-> i],
                  LAMBDA i : /\ ~Less(mean_per_bit[i], threshold)
                             /\ ~Less(Frac(threshold.den - threshold.num, threshold.den),
                                      mean_per_bit[i]))

\* find_unstable_bits(samples, threshold): indices with threshold < mean < 1 - threshold
find_unstable_bits(cohort, threshold) ==
    LET mean_per_bit == MeanPerBit(cohort)
    IN  SelectSeq([i \in 1..Len(mean_per_bit) |-> i],
                  LAMBDA i : /\ Less(threshold, mean_per_bit[i])
                             /\ Less(mean_per_bit[i],
                                     Frac(threshold.den - threshold.num, threshold.den)))

\* [s[unstable_indices] for s in samples]
extract_unstable_bits(cohort, unstable_indices) ==
    [k \in 1..Len(cohort) |->
        [j \in 1..Len(unstable_indices) |-> cohort[k][unstable_indices[j]]]]

\* hamming_distance of puf_unstable_bits: if min_len == 0: return 0
hamming_distance_unstable_bits(bits1, bits2) ==
    LET n == Min(Len(bits1), Len(bits2))
    IN  IF n = 0 THEN Frac(0, 1) ELSE Frac(Differing(bits1, bits2, n), n)

\* compute_intra_hd of puf_unstable_bits
compute_intra_hd_unstable_bits(cohort) ==
    LET pairs == Combinations2(Len(cohort))
    IN  [k \in 1..Len(pairs) |->
            hamming_distance_unstable_bits(cohort[pairs[k][1]], cohort[pairs[k][2]])]

\* ============================================================ DebiasEngine
\* np.random.seed(42)
SEED == 42

\* the generator of a process that has not called np.random.seed yet
Unseeded == [seeded |-> FALSE, seed |-> 0, pos |-> 0]

\* The low four bits of the successive 32-bit outputs of MT19937 seeded with 42
\* (enough for the masked draws of a population of at most 16).
MT19937Seed42 ==
    << 6, 3, 12, 14, 10, 7, 12, 4, 6, 9, 2, 6, 10, 10, 7, 4, 3, 7, 7, 2, 5, 4, 1, 7,
       11, 13, 5, 1, 15, 11, 4, 0, 11, 9, 5, 12, 11, 8, 0, 10, 10, 14, 9, 15, 11, 11,
       15, 14, 13, 13, 14, 13, 2, 11, 6, 3, 15, 8, 2, 4, 2, 6, 4, 8, 6, 1, 3, 8, 11,
       13, 1, 9, 8, 9, 4, 1, 3, 11, 14, 11, 6, 11, 12, 7, 14, 2, 13, 0, 3, 1, 7, 3,
       1, 13, 5, 5 >>

\* variant: the generator is seeded once per process, not at every call
seed_once(state) ==
    IF state.seeded THEN state ELSE [seeded |-> TRUE, seed |-> SEED, pos |-> 0]

\* np.random.seed(42): the generator restarts at the head of the seed-42 stream
seed(state) == [seeded |-> TRUE, seed |-> SEED, pos |-> 0]

\* smallest 2^k - 1 that is >= max
RECURSIVE BitMask(_, _)
BitMask(max, k) == IF Pow2(k) - 1 >= max THEN Pow2(k) - 1 ELSE BitMask(max, k + 1)

\* numpy's random_interval: draw, mask, reject while > max; <<value, position after>>
RECURSIVE random_interval(_, _)
random_interval(pos, max) ==
    IF max = 0 THEN <<0, pos>>
    ELSE LET value == MT19937Seed42[pos + 1] % (BitMask(max, 0) + 1)
         IN  IF value <= max THEN <<value, pos + 1>> ELSE random_interval(pos + 1, max)

Swap(x, i, j) == [x EXCEPT ![i] = x[j], ![j] = x[i]]

\* numpy's shuffle: for i in reversed(range(1, n)): j = random_interval(i); swap
RECURSIVE Shuffle(_, _, _)
Shuffle(x, i, pos) ==
    IF i < 1 THEN <<x, pos>>
    ELSE LET r == random_interval(pos, i)
         IN  Shuffle(Swap(x, i + 1, r[1] + 1), i - 1, r[2])

\* np.random.permutation(n), 0-based values; <<permutation, position after>>
permutation(n, pos) == Shuffle([k \in 1..n |-> k - 1], n - 1, pos)

\* np.random.choice(a, size=size, replace=False) on the generator `state`:
\* [result |-> <<"ok", chosen>> or ValueError, rng |-> the generator afterwards]
choice(a, size, state) ==
    IF (Len(a) = 0 /\ size # 0) \/ size > Len(a) \/ size < 0
    THEN [result |-> ValueError, rng |-> state]
    ELSE LET p == permutation(Len(a), state.pos)
         IN  [result |-> <<"ok", [k \in 1..size |-> a[p[1][k] + 1]]>>,
              rng |-> [state EXCEPT !.pos = p[2]]]

\* variant: mean_per_bit < 0.5
StableZeroIndicesHalf(mean_per_bit) ==
    SelectSeq([i \in 1..Len(mean_per_bit) |-> i],
              LAMBDA i : Less(mean_per_bit[i], Frac(1, 2)))

\* positions with mean_per_bit < 0.05, ascending (np.where(stable_zero_positions)[0])
StableZeroIndices(mean_per_bit) ==
    SelectSeq([i \in 1..Len(mean_per_bit) |-> i],
              LAMBDA i : Less(mean_per_bit[i], Frac(5, 100)))

\* ============================================================ float64
\* A non-negative binary64 value is kept exactly, as a fixed-point number of
\* Limbs digits in base 2^16: digit 1 is the integer part, the others the
\* fraction. Every operation computes the exact result and rounds it to 53
\* significant bits, ties to even, as IEEE 754 arithmetic does. An operation
\* takes the value of each argument once, as a call does: CHOOSE from the
\* one-element set {result : a \in {argument}} evaluates the argument first.
Limbs == 6
Base == 65536

FromInt(v) == SubSeq([k \in 1..Limbs |-> IF k = 1 THEN v ELSE 0], 1, Limbs)

\* the digits r, each possibly out of 0..Base-1, with the carries (or borrows)
\* taken from the last digit up to the integer part
Carry(r) ==
    LET c[k \in 1..Limbs] == IF k = Limbs THEN 0 ELSE (r[k + 1] + c[k + 1]) \div Base
    IN  SubSeq([k \in 1..Limbs |-> IF k = 1 THEN r[1] + c[1] ELSE (r[k] + c[k]) % Base],
               1, Limbs)

\* x / d by long division: the quotient cut after the last digit, and the remainder
DivSmall(x, d) ==
    LET rem[k \in 0..Limbs] == IF k = 0 THEN 0 ELSE (rem[k - 1] * Base + x[k]) % d
    IN  [quotient |-> SubSeq([k \in 1..Limbs |-> (rem[k - 1] * Base + x[k]) \div d], 1, Limbs),
         remainder |-> rem[Limbs]]

FloatLess(x, y) ==
    \E k \in 1..Limbs : x[k] < y[k] /\ \A j \in 1..(k - 1) : x[j] = y[j]

\* the number of bits of a digit
BitLength(digit) ==
    LET bits[v \in 0..(Base - 1)] == IF v = 0 THEN 0 ELSE 1 + bits[v \div 2]
    IN  bits[digit]

\* the place of the 53rd significant bit of x # 0, counted in bits from the
\* first bit of digit 1
LastPlace(x) ==
    LET kl == CHOOSE k \in 1..Limbs : x[k] # 0 /\ \A j \in 1..(k - 1) : x[j] = 0
    IN  16 * (kl - 1) + (16 - BitLength(x[kl])) + 52

\* x (plus something below its last digit when sticky) rounded at a place, ties
\* to even
RoundAt(x, sticky, place) ==
    CHOOSE rounded \in
        {IF c >= 16 * Limbs - 1 THEN x
         ELSE LET kc == (c \div 16) + 1
                  u  == Pow2(15 - (c % 16))          \* weight of that bit in digit kc
                  round == IF u > 1 THEN (x[kc] \div (u \div 2)) % 2
                           ELSE x[kc + 1] \div (Base \div 2)
                  below == \/ sticky
                           \/ IF u > 1
                              THEN \/ x[kc] % (u \div 2) # 0
                                   \/ \E k \in (kc + 1)..Limbs : x[k] # 0
                              ELSE \/ x[kc + 1] % (Base \div 2) # 0
                                   \/ \E k \in (kc + 2)..Limbs : x[k] # 0
                  odd == (x[kc] \div u) % 2 = 1
                  kept == [k \in 1..Limbs |->
                              IF k < kc THEN x[k]
                              ELSE IF k = kc THEN x[kc] - (x[kc] % u) ELSE 0]
              IN  IF round = 1 /\ (below \/ odd)
                  THEN Carry([kept EXCEPT ![kc] = @ + u])
                  ELSE SubSeq(kept, 1, Limbs)
         : c \in {place}} : TRUE

\* the exact value (plus something below its last digit when sticky) rounded to
\* 53 significant bits
Round53(exact, sticky) ==
    CHOOSE rounded \in
        {IF \A k \in 1..Limbs : x[k] = 0 THEN x ELSE RoundAt(x, sticky, LastPlace(x))
         : x \in {exact}} : TRUE

\* x + y, x / d and x * m in float64, for non-negative x, y and integers d, m
FloatAdd(x, y) ==
    CHOOSE sum \in
        {Round53(Carry([k \in 1..Limbs |-> a[k] + b[k]]), FALSE)
         : a \in {x}, b \in {y}} : TRUE

FloatDiv(x, d) ==
    CHOOSE quotient \in
        {Round53(q.quotient, q.remainder # 0) : q \in {DivSmall(x, d)}} : TRUE

FloatMul(x, m) ==
    CHOOSE product \in
        {Round53(Carry([k \in 1..Limbs |-> a[k] * m]), FALSE) : a \in {x}} : TRUE

\* variant: 1.0 - x, for x <= 1
OneMinus(x) ==
    CHOOSE difference \in
        {[negative |-> FALSE,
          magnitude |-> Round53(Carry([k \in 1..Limbs |-> FromInt(1)[k] - a[k]]), FALSE)]
         : a \in {x}} : TRUE

\* 0.5 - x in float64, as sign and magnitude
HalfMinus(x) ==
    CHOOSE difference \in
        {IF FloatLess(half, a)
         THEN [negative |-> TRUE,
               magnitude |-> Round53(Carry([k \in 1..Limbs |-> a[k] - half[k]]), FALSE)]
         ELSE [negative |-> FALSE,
               magnitude |-> Round53(Carry([k \in 1..Limbs |-> half[k] - a[k]]), FALSE)]
         : a \in {x}, half \in {[k \in 1..Limbs |-> IF k = 2 THEN Base \div 2 ELSE 0]}} : TRUE

\* int(x * m) for a signed x: the product in float64, truncated toward zero
IntOfProduct(x, m) ==
    CHOOSE truncated \in
        {IF a.negative THEN 0 - FloatMul(a.magnitude, m)[1] ELSE FloatMul(a.magnitude, m)[1]
         : a \in {x}} : TRUE

\* numpy's pairwise summation of a float64 array of at most 128 elements: a plain
\* loop below 8 elements, else 8 running sums added in a fixed tree, then the
\* elements after the last whole block of 8
PairwiseSum(array) ==
    CHOOSE sum \in
        {LET n == Len(a)
             blocks == n \div 8
             \* res = 0.; for i in range(n): res += a[i]
             plain[i \in 0..n] == IF i = 0 THEN FromInt(0) ELSE FloatAdd(plain[i - 1], a[i])
             \* r[j] = a[j]; for i in range(8, n - n % 8, 8): r[j] += a[i + j]
             r[p \in (1..8) \X (1..blocks)] ==
                 IF p[2] = 1 THEN a[p[1]]
                 ELSE FloatAdd(r[<<p[1], p[2] - 1>>], a[8 * (p[2] - 1) + p[1]])
             tree == FloatAdd(FloatAdd(FloatAdd(r[<<1, blocks>>], r[<<2, blocks>>]),
                                       FloatAdd(r[<<3, blocks>>], r[<<4, blocks>>])),
                              FloatAdd(FloatAdd(r[<<5, blocks>>], r[<<6, blocks>>]),
                                       FloatAdd(r[<<7, blocks>>], r[<<8, blocks>>])))
             \* for i in range(n - n % 8, n): res += a[i]
             rest[i \in (8 * blocks)..n] ==
                 IF i = 8 * blocks THEN tree ELSE FloatAdd(rest[i - 1], a[i])
         IN  IF n < 8 THEN plain[n] ELSE rest[n]
         : a \in {SubSeq(array, 1, Len(array))}} : TRUE

\* variant: np.sum(bits), the division left out
hamming_weight_sum(bits) == FromInt(SumSeq(bits))

\* hamming_weight(bits) = np.sum(bits) / len(bits), a float64
hamming_weight(bits) == FloatDiv(FromInt(SumSeq(bits)), Len(bits))

\* np.mean(hw_values) for hw_values = [hamming_weight(s) for s in samples]
mean_hamming_weight(cohort) ==
    FloatDiv(PairwiseSum([k \in 1..Len(cohort) |-> hamming_weight(cohort[k])]), Len(cohort))

\* global_1_rate = np.mean(samples_array): the bits are summed in float64, which
\* is exact for 0/1 values, and the sum is divided by the number of bits
global_1_rate(cohort) ==
    FloatDiv(FromInt(SumSeq([k \in 1..Len(cohort) |-> SumSeq(cohort[k])])),
             Len(cohort) * Len(cohort[1]))

\* np.mean(per_bit_1_rate) for per_bit_1_rate = np.mean(samples_array, axis=0)
mean_per_bit_rate(cohort) ==
    FloatDiv(PairwiseSum([i \in 1..Len(cohort[1]) |->
                            FloatDiv(FromInt(Ones(cohort, i)), Len(cohort))]),
             Len(cohort[1]))

\* flip_indices = np.random.choice(stable_indices, size=num_to_flip, replace=False)
\* after np.random.seed(42); mask[flip_indices] = 1: the mask, or the exception
MaskOfDraw(stable_indices, num_to_flip, state, L) ==
    CHOOSE made \in
        {IF drawn.result = ValueError THEN drawn
         ELSE [result |-> <<"ok", [i \in 1..L |->
                                     IF \E k \in 1..num_to_flip : drawn.result[2][k] = i
                                     THEN 1 ELSE 0]>>,
               rng |-> drawn.rng]
         : drawn \in {choice(stable_indices, num_to_flip, seed(state))}} : TRUE

\* create_xor_mask(samples) run on the generator `state`:
\* [result |-> <<"ok", mask>> or ValueError, rng |-> the generator afterwards]
create_xor_mask(cohort, state) ==
    LET mean_per_bit == MeanPerBit(cohort)
        L == Len(mean_per_bit)
        \* np.mean(samples_array, axis=0) as float64 values
        float_per_bit == [i \in 1..L |-> FloatDiv(FromInt(mean_per_bit[i].num),
                                                  mean_per_bit[i].den)]
        \* current_hw = np.mean(mean_per_bit)
        current_hw == FloatDiv(PairwiseSum(float_per_bit), L)
        target_flip_ratio == HalfMinus(current_hw)
        stable_indices == StableZeroIndices(mean_per_bit)
        \* int(target_flip_ratio * len(mean_per_bit))
        num_to_flip == Min(IntOfProduct(target_flip_ratio, L), Len(stable_indices))
    IN  CHOOSE made \in
            {MaskOfDraw(stable_indices, n, state, L) : n \in {num_to_flip}} : TRUE

\* variant: only the first member is XOR-ed with the mask
apply_xor_mask_first(cohort, m) ==
    [k \in 1..Len(cohort) |->
        [i \in 1..Len(cohort[k]) |->
            IF k = 1 THEN (cohort[k][i] + Prefix(m, Len(cohort[k]))[i]) % 2
            ELSE cohort[k][i]]]

\* variant: np.bitwise_and in place of np.bitwise_xor
apply_xor_mask_and(cohort, m) ==
    [k \in 1..Len(cohort) |->
        [i \in 1..Len(cohort[k]) |-> cohort[k][i] * Prefix(m, Len(cohort[k]))[i]]]

\* [np.bitwise_xor(s, mask[:len(s)]) for s in samples]
apply_xor_mask(cohort, m) ==
    [k \in 1..Len(cohort) |->
        [i \in 1..Len(cohort[k]) |-> (cohort[k][i] + Prefix(m, Len(cohort[k]))[i]) % 2]]

\* ============================================================ the scripts
\* capture contents the two card directories are filled from
Capture00   == <<"0", "0">>
Capture0F   == <<"0", "F", "\n">>
CaptureFF   == <<"F", "F", ".">>
Capture03C0 == <<"0", "3", " ", "C", "0", ".">>
CaptureF00F == <<"F", "0", " ", "0", "F", " ", "7">>
CaptureBad  == <<"G", ".">>

Card1Captures == {Capture00, Capture0F, CaptureFF, Capture03C0}
Card2Captures == {Capture00, CaptureF00F, CaptureBad}

\* the state of the outputs when a script starts
NothingComputed ==
    /\ rng = Unseeded
    /\ fp = [c \in Cards |-> Nothing]
    /\ saved = {}
    /\ intra_hd = [c \in Cards |-> Nothing]
    /\ inter_hd = Nothing
    /\ mask = [c \in Cards |-> Nothing]
    /\ debiased = [c \in Cards |-> Nothing]
    /\ intra_orig = [c \in Cards |-> Nothing]
    /\ intra_after = [c \in Cards |-> Nothing]
    /\ inter_before = Nothing
    /\ inter_after = Nothing
    /\ flip = [c \in Cards |-> Nothing]
    /\ unstable = [c \in Cards |-> Nothing]
    /\ unstable_samples = [c \in Cards |-> Nothing]

Directories(captures, n) == UNION {[1..k -> captures] : k \in 0..n}

Init ==
    /\ pc = "start"
    /\ script = None
    /\ text = <<>>
    /\ decoded = None
    /\ args = <<>> /\ ret = None
    /\ dir1 \in Directories(Card1Captures, MaxFiles)
    /\ dir2 \in Directories(Card2Captures, MaxFiles2)
    /\ samples = [c \in Cards |-> <<>>]
    /\ min_len = Nothing
    /\ error = None
    /\ NothingComputed

\* card1_samples = load_all_samples(card1_dir); card2_samples = load_all_samples(card2_dir)
LoadAllSamples ==
    /\ pc = "start"
    /\ samples' = [c \in Cards |-> load_all_samples(IF c = 1 THEN dir1 ELSE dir2)]
    /\ pc' = "loaded"
    /\ UNCHANGED <<script, min_len, error, rng, inputs, outputs>>

\* min_len = min(min(len(s) for s in card1_samples), min(len(s) for s in card2_samples))
\* card1_samples = [s[:min_len] ...]; card2_samples = [s[:min_len] ...]
NormalizeLengths ==
    /\ pc = "loaded"
    /\ LET m1 == MinSampleLen(samples[1])
           m2 == MinSampleLen(samples[2])
       IN  IF m1 = ValueError \/ m2 = ValueError
           THEN /\ error' = "ValueError"
                /\ pc' = "error"
                /\ UNCHANGED <<samples, min_len>>
           ELSE /\ min_len' = Just(Min(m1[2], m2[2]))
                /\ samples' = [c \in Cards |-> Truncate(samples[c], Min(m1[2], m2[2]))]
                /\ pc' = "normalized"
                /\ UNCHANGED error
    /\ UNCHANGED <<script, rng, inputs, outputs>>

\* puf_fingerprint_generation.py: fp1, fp2 = compute_fingerprint(...); np.save(...)
ComputeFingerprints ==
    /\ pc = "normalized"
    /\ script' = "puf_fingerprint_generation"
    /\ fp' = [c \in Cards |-> Just(compute_fingerprint(samples[c]))]
    /\ saved' = saved \cup {"card_1_fingerprint.npy", "card_2_fingerprint.npy"}
    /\ pc' = "done"
    /\ UNCHANGED <<samples, min_len, error, rng, inputs, intra_hd, inter_hd, mask,
                   debiased, intra_orig, intra_after, inter_before, inter_after,
                   flip, unstable, unstable_samples>>

\* puf_intra_HD.py: intra1, intra2 = create_intra_hd_figure(...)
ComputeIntraHd ==
    /\ pc = "normalized"
    /\ script' = "puf_intra_HD"
    /\ intra_hd' = [c \in Cards |-> Just(compute_intra_hd(samples[c]))]
    /\ pc' = "done"
    /\ UNCHANGED <<samples, min_len, error, rng, inputs, fp, saved, inter_hd, mask,
                   debiased, intra_orig, intra_after, inter_before, inter_after,
                   flip, unstable, unstable_samples>>

\* puf_inter_HD.py: inter_hd = compute_inter_hd(card1_samples, card2_samples)
ComputeInterHd ==
    /\ pc = "normalized"
    /\ script' = "puf_inter_HD"
    /\ inter_hd' = Just(compute_inter_hd(samples[1], samples[2]))
    /\ pc' = "done"
    /\ UNCHANGED <<samples, min_len, error, rng, inputs, fp, saved, intra_hd, mask,
                   debiased, intra_orig, intra_after, inter_before, inter_after,
                   flip, unstable, unstable_samples>>

\* maskN = create_xor_mask(cardN_samples): the mask, or the exception ends the script
MaskStep(c, to) ==
    \E r \in {create_xor_mask(samples[c], rng)} :
        /\ rng' = r.rng
        /\ IF r.result = ValueError
           THEN /\ error' = "ValueError"
                /\ pc' = "error"
                /\ UNCHANGED mask
           ELSE /\ mask' = [mask EXCEPT ![c] = Just(r.result[2])]
                /\ pc' = to
                /\ UNCHANGED error

\* cardN_debiased = apply_xor_mask(cardN_samples, maskN), for both cards
ApplyStep ==
    debiased' = [c \in Cards |-> Just(apply_xor_mask(samples[c], mask[c][1]))]

\* puf_xor_debias_HW_and_intra.py
XorIntraMask1 ==
    /\ pc = "normalized"
    /\ script' = "puf_xor_debias_HW_and_intra"
    /\ MaskStep(1, "intra_mask1")
    /\ UNCHANGED <<samples, min_len, inputs, fp, saved, intra_hd, inter_hd,
                   debiased, intra_orig, intra_after, inter_before, inter_after,
                   flip, unstable, unstable_samples>>

XorIntraMask2 ==
    /\ pc = "intra_mask1"
    /\ MaskStep(2, "intra_mask2")
    /\ UNCHANGED <<script, samples, min_len, inputs, fp, saved, intra_hd, inter_hd,
                   debiased, intra_orig, intra_after, inter_before, inter_after,
                   flip, unstable, unstable_samples>>

XorIntraApply ==
    /\ pc = "intra_mask2"
    /\ ApplyStep
    /\ pc' = "intra_applied"
    /\ UNCHANGED <<script, samples, min_len, error, rng, inputs, fp, saved, intra_hd,
                   inter_hd, mask, intra_orig, intra_after, inter_before, inter_after,
                   flip, unstable, unstable_samples>>

\* results1, results2 = create_comparison_figure(cardN_samples, cardN_debiased, ...)
XorIntraCompare ==
    /\ pc = "intra_applied"
    /\ intra_orig' = [c \in Cards |-> Just(compute_intra_hd(samples[c]))]
    /\ intra_after' = [c \in Cards |-> Just(compute_intra_hd(debiased[c][1]))]
    /\ pc' = "done"
    /\ UNCHANGED <<script, samples, min_len, error, rng, inputs, fp, saved, intra_hd,
                   inter_hd, mask, debiased, inter_before, inter_after,
                   flip, unstable, unstable_samples>>

\* puf_xor_debias_inter.py
XorInterBefore ==
    /\ pc = "normalized"
    /\ script' = "puf_xor_debias_inter"
    /\ inter_before' = Just(compute_inter_hd(samples[1], samples[2]))
    /\ pc' = "inter_before"
    /\ UNCHANGED <<samples, min_len, error, rng, inputs, fp, saved, intra_hd, inter_hd,
                   mask, debiased, intra_orig, intra_after, inter_after,
                   flip, unstable, unstable_samples>>

XorInterMask1 ==
    /\ pc = "inter_before"
    /\ MaskStep(1, "inter_mask1")
    /\ UNCHANGED <<script, samples, min_len, inputs, fp, saved, intra_hd, inter_hd,
                   debiased, intra_orig, intra_after, inter_before, inter_after,
                   flip, unstable, unstable_samples>>

XorInterMask2 ==
    /\ pc = "inter_mask1"
    /\ MaskStep(2, "inter_mask2")
    /\ UNCHANGED <<script, samples, min_len, inputs, fp, saved, intra_hd, inter_hd,
                   debiased, intra_orig, intra_after, inter_before, inter_after,
                   flip, unstable, unstable_samples>>

XorInterApply ==
    /\ pc = "inter_mask2"
    /\ ApplyStep
    /\ pc' = "inter_applied"
    /\ UNCHANGED <<script, samples, min_len, error, rng, inputs, fp, saved, intra_hd,
                   inter_hd, mask, intra_orig, intra_after, inter_before, inter_after,
                   flip, unstable, unstable_samples>>

XorInterAfter ==
    /\ pc = "inter_applied"
    /\ inter_after' = Just(compute_inter_hd(debiased[1][1], debiased[2][1]))
    /\ pc' = "done"
    /\ UNCHANGED <<script, samples, min_len, error, rng, inputs, fp, saved, intra_hd,
                   inter_hd, mask, debiased, intra_orig, intra_after, inter_before,
                   flip, unstable, unstable_samples>>

\* puf_flip_rate.py: results1 = analyze_flip_rate(card1_samples, "Card 1", ...)
AnalyzeFlipRate1 ==
    /\ pc = "normalized"
    /\ script' = "puf_flip_rate"
    /\ flip' = [flip EXCEPT ![1] = Just(analyze_flip_rate(samples[1]))]
    /\ saved' = saved \cup {"card_1_stable_mask.npy"}
    /\ pc' = "flip1"
    /\ UNCHANGED <<samples, min_len, error, rng, inputs, fp, intra_hd, inter_hd, mask,
                   debiased, intra_orig, intra_after, inter_before, inter_after,
                   unstable, unstable_samples>>

AnalyzeFlipRate2 ==
    /\ pc = "flip1"
    /\ flip' = [flip EXCEPT ![2] = Just(analyze_flip_rate(samples[2]))]
    /\ saved' = saved \cup {"card_2_stable_mask.npy"}
    /\ pc' = "done"
    /\ UNCHANGED <<script, samples, min_len, error, rng, inputs, fp, intra_hd, inter_hd,
                   mask, debiased, intra_orig, intra_after, inter_before, inter_after,
                   unstable, unstable_samples>>

\* puf_unstable_bits.py: unstableN, meansN = find_unstable_bits(cardN_samples, threshold=0.1)
FindUnstableBits ==
    /\ pc = "normalized"
    /\ script' = "puf_unstable_bits"
    /\ unstable' = [c \in Cards |-> Just(find_unstable_bits(samples[c], Frac(1, 10)))]
    /\ pc' = "unstable_found"
    /\ UNCHANGED <<samples, min_len, error, rng, inputs, fp, saved, intra_hd, inter_hd,
                   mask, debiased, intra_orig, intra_after, inter_before, inter_after,
                   flip, unstable_samples>>

\* cardN_unstable = extract_unstable_bits(cardN_samples, unstableN)
ExtractUnstableBits ==
    /\ pc = "unstable_found"
    /\ unstable_samples' =
           [c \in Cards |-> Just(extract_unstable_bits(samples[c], unstable[c][1]))]
    /\ pc' = "unstable_extracted"
    /\ UNCHANGED <<script, samples, min_len, error, rng, inputs, fp, saved, intra_hd,
                   inter_hd, mask, debiased, intra_orig, intra_after, inter_before,
                   inter_after, flip, unstable>>

\* resultsN = create_comparison_figure(cardN_samples, cardN_unstable, ...)
UnstableCompare ==
    /\ pc = "unstable_extracted"
    /\ intra_orig' = [c \in Cards |-> Just(compute_intra_hd_unstable_bits(samples[c]))]
    /\ intra_after' =
           [c \in Cards |-> Just(compute_intra_hd_unstable_bits(unstable_samples[c][1]))]
    /\ pc' = "done"
    /\ UNCHANGED <<script, samples, min_len, error, rng, inputs, fp, saved, intra_hd,
                   inter_hd, mask, debiased, inter_before, inter_after,
                   flip, unstable, unstable_samples>>

Next ==
    \/ LoadAllSamples
    \/ NormalizeLengths
    \/ ComputeFingerprints
    \/ ComputeIntraHd
    \/ ComputeInterHd
    \/ XorIntraMask1
    \/ XorIntraMask2
    \/ XorIntraApply
    \/ XorIntraCompare
    \/ XorInterBefore
    \/ XorInterMask1
    \/ XorInterMask2
    \/ XorInterApply
    \/ XorInterAfter
    \/ AnalyzeFlipRate1
    \/ AnalyzeFlipRate2
    \/ FindUnstableBits
    \/ ExtractUnstableBits
    \/ UnstableCompare

Spec == Init /\ [][Next]_vars

\* ------------------------------------------- loading specification
\* directories holding captures that cannot be used among captures that can
CaptureUnreadable == <<"F", "F", InvalidByte>>

LoadCaptures1 == {Capture0F, Capture03C0, CaptureBad, CaptureUnreadable}
LoadCaptures2 == {Capture00, CaptureUnreadable}

InitLoad ==
    /\ pc = "start"
    /\ script = None
    /\ text = <<>>
    /\ decoded = None
    /\ args = <<>> /\ ret = None
    /\ dir1 \in Directories(LoadCaptures1, MaxFiles)
    /\ dir2 \in Directories(LoadCaptures2, MaxFiles2)
    /\ samples = [c \in Cards |-> <<>>]
    /\ min_len = Nothing
    /\ error = None
    /\ NothingComputed

NextLoad ==
    \/ LoadAllSamples
    \/ NormalizeLengths

SpecLoad == InitLoad /\ [][NextLoad]_vars

\* ------------------------------------------- decoder specification
Alphabet == {"A", "B", "7", " ", ".", "G", "-", "\t"}

TextsUpTo(n) == UNION {[1..k -> Alphabet] : k \in 0..n}

InitDecode ==
    /\ pc = "decode"
    /\ script = "load_sram_file"
    /\ text \in TextsUpTo(MaxTextLen)
    /\ decoded = None
    /\ args = <<>> /\ ret = None
    /\ dir1 = <<>> /\ dir2 = <<>>
    /\ samples = [c \in Cards |-> <<>>]
    /\ min_len = Nothing
    /\ error = None
    /\ NothingComputed

LoadSramFile ==
    /\ pc = "decode"
    /\ decoded' = load_sram_file(text)
    /\ pc' = "decoded"
    /\ UNCHANGED <<script, text, dir1, dir2, args, ret, samples, min_len, error, rng, outputs>>

NextDecode == LoadSramFile

SpecDecode == InitDecode /\ [][NextDecode]_vars

\* ------------------------------------- functions called on their own
BitSeqs(lo, hi) == UNION {[1..k -> {0, 1}] : k \in lo..hi}

\* a function of the scripts is about to be called on args
Calling(function) ==
    /\ pc = "call"
    /\ script = function
    /\ text = <<>> /\ decoded = None
    /\ ret = None
    /\ dir1 = <<>> /\ dir2 = <<>>
    /\ samples = [c \in Cards |-> <<>>]
    /\ min_len = Nothing
    /\ error = None
    /\ NothingComputed

\* the call returns value
Returns(function, value) ==
    /\ pc = "call" /\ script = function
    /\ ret' = value
    /\ pc' = "returned"
    /\ UNCHANGED <<script, text, decoded, dir1, dir2, args, samples, min_len, error,
                   rng, outputs>>

\* byte arrays and the ways of writing them as capture text
ByteSample == {0, 1, 9, 10, 15, 16, 127, 128, 171, 255}

ByteArrays == [1..1 -> 0..255] \cup UNION {[1..k -> ByteSample] : k \in 0..MaxBytes}

UpperDigits == <<"0", "1", "2", "3", "4", "5", "6", "7", "8", "9", "A", "B", "C", "D", "E", "F">>
LowerDigits == <<"0", "1", "2", "3", "4", "5", "6", "7", "8", "9", "a", "b", "c", "d", "e", "f">>

\* each byte as two hexadecimal digits, followed by the separator
RECURSIVE HexText(_, _, _)
HexText(bytes, digits, sep) ==
    IF bytes = <<>> THEN <<>>
    ELSE <<digits[(Head(bytes) \div 16) + 1], digits[(Head(bytes) % 16) + 1]>> \o sep
         \o HexText(Tail(bytes), digits, sep)

\* the byte the inner loop of fingerprint_to_hex builds from position i (0-based):
\* byte = (byte << 1) | fingerprint[i + j] for the j in range(8) with i + j < len
RenderedByte(fingerprint, i) ==
    LET shifted[j \in 0..8] ==
            IF j = 0 THEN 0
            ELSE IF i + j - 1 < Len(fingerprint)
                 THEN 2 * shifted[j - 1] + fingerprint[i + j]
                 ELSE shifted[j - 1]
    IN  shifted[8]

\* hex_str after the loop for i in range(0, min(len(fingerprint), num_bytes * 8), 8):
\* f"{byte:02X} " per byte, and "\n" after every 16th
RECURSIVE RenderedHex(_, _, _)
RenderedHex(fingerprint, num_bytes, i) ==
    IF i >= Min(Len(fingerprint), num_bytes * 8) THEN <<>>
    ELSE <<UpperDigits[(RenderedByte(fingerprint, i) \div 16) + 1],
           UpperDigits[(RenderedByte(fingerprint, i) % 16) + 1], " ">>
         \o (IF ((i \div 8) + 1) % 16 = 0 THEN <<"\n">> ELSE <<>>)
         \o RenderedHex(fingerprint, num_bytes, i + 8)

\* str.strip(): whitespace removed from both ends
RECURSIVE Strip(_)
Strip(str) ==
    IF str = <<>> THEN str
    ELSE IF Head(str) \in PyWhitespace THEN Strip(Tail(str))
    ELSE IF str[Len(str)] \in PyWhitespace THEN Strip(SubSeq(str, 1, Len(str) - 1))
    ELSE str

\* fingerprint_to_hex(fingerprint, num_bytes)
fingerprint_to_hex(fingerprint, num_bytes) == Strip(RenderedHex(fingerprint, num_bytes, 0))

\* the num_bytes the preview is asked for: the default 64, and fewer
PreviewBytes == {1, 64}

\* cohorts of equal-length members: many members of one bit, few of two bits
CohortsOf(n, L) == UNION {[1..k -> [1..L -> {0, 1}]] : k \in 1..n}

FlipCohorts == CohortsOf(MaxMembers, 1) \cup CohortsOf(MaxWideMembers, 2)

\* one-byte members, and the orders a cohort of them can be put in
ByteMembers == {ByteBits(0), ByteBits(3), ByteBits(15), ByteBits(255)}

ReorderedCohorts == UNION {[1..k -> ByteMembers] : k \in 1..MaxReordered}

OtherCohorts == {<<ByteBits(240)>>, <<ByteBits(0), ByteBits(240)>>}

Orders(n) == {p \in [1..n -> 1..n] : \A a, b \in 1..n : p[a] = p[b] => a = b}

Permute(cohort, p) == [k \in 1..Len(cohort) |-> cohort[p[k]]]

\* cohorts to debias: one capture of three bytes, or a few captures of one byte
WideCaptures == {<<ExpandBytes(<<255, x, y>>)>> : x, y \in {0, 3, 192, 255}}

DebiasMembers == {ByteBits(0), ByteBits(15), ByteBits(254), ByteBits(255)}

DebiasCohorts == WideCaptures \cup UNION {[1..k -> DebiasMembers] : k \in 1..MaxDebiased}

\* fingerprints long enough for the preview to wrap after 16 bytes
LongFingerprints ==
    {[i \in 1..n |-> IF i % 3 = 0 THEN 1 ELSE 0] : n \in {128, 131, 136}}

\* thresholds handed to find_unstable_bits: the scripts' 0.1, and 0.25
Thresholds == {Frac(1, 10), Frac(1, 4)}

InitCalls ==
    \/ Calling("hamming_distance") /\ args \in BitSeqs(1, MaxBits) \X BitSeqs(1, MaxBits)
    \/ Calling("load_sram_file, packbits")
          /\ args \in ByteArrays \X {UpperDigits, LowerDigits} \X {<<>>, <<" ">>, <<".", "\r", "\n">>}
    \/ Calling("analyze_flip_rate") /\ args \in {<<cohort>> : cohort \in FlipCohorts}
    \/ Calling("fingerprint_hash") /\ args \in {<<fingerprint>> : fingerprint \in BitSeqs(0, MaxFpBits)}
    \/ Calling("statistics")
          /\ \E cohort \in ReorderedCohorts :
                args \in {cohort} \X Orders(Len(cohort)) \X OtherCohorts
    \/ Calling("create_xor_mask, apply_xor_mask")
          /\ args \in {<<cohort>> : cohort \in DebiasCohorts}
    \/ Calling("global rates") /\ args \in {<<cohort>> : cohort \in DebiasCohorts}
    \/ Calling("fingerprint_to_hex")
          /\ args \in (BitSeqs(0, MaxFpBits) \cup LongFingerprints) \X PreviewBytes
    \/ Calling("analyze_flip_rate, find_unstable_bits")
          /\ args \in {<<cohort>> : cohort \in FlipCohorts}
    \/ Calling("find_unstable_bits, extract_unstable_bits")
          /\ args \in (FlipCohorts \cup DebiasCohorts) \X Thresholds

\* hamming_distance(bits1, bits2)
CallHammingDistance == Returns("hamming_distance", hamming_distance(args[1], args[2]))

\* np.packbits(load_sram_file(file)) on a file holding the bytes args[1] in hexadecimal
CallDecodeThenPack ==
    Returns("load_sram_file, packbits",
            packbits(load_sram_file(HexText(args[1], args[2], args[3]))))

\* analyze_flip_rate(samples, card_name, output_dir)
CallAnalyzeFlipRate == Returns("analyze_flip_rate", analyze_flip_rate(args[1]))

\* every statistic the scripts take of a cohort, here of args[1] put in the order
\* args[2], with args[3] as the other card's cohort
CallStatistics ==
    LET cohort == Permute(args[1], args[2])
    IN  Returns("statistics",
                [per_bit_mean |-> MeanPerBit(cohort),
                 fingerprint |-> compute_fingerprint(cohort),
                 flip |-> analyze_flip_rate(cohort),
                 mask |-> create_xor_mask(cohort, rng).result,
                 intra |-> compute_intra_hd(cohort),
                 inter |-> compute_inter_hd(cohort, args[3]),
                 inter_from |-> compute_inter_hd(args[3], cohort)])

\* mask = create_xor_mask(samples); debiased = apply_xor_mask(samples, mask):
\* mask is <<"ok", the mask>> or the exception of create_xor_mask, which leaves
\* nothing debiased
CallDebias ==
    LET created == create_xor_mask(args[1], rng).result
    IN  Returns("create_xor_mask, apply_xor_mask",
                [mask |-> created,
                 debiased |-> IF created = ValueError THEN Nothing
                              ELSE Just(apply_xor_mask(args[1], created[2]))])

\* the global 1-rate of a cohort as the scripts print it: analyze_bit_balance's
\* global_1_rate and mean of per_bit_1_rate, and the mean of the members' weights
CallGlobalRates ==
    Returns("global rates",
            [flattened |-> global_1_rate(args[1]),
             per_bit |-> mean_per_bit_rate(args[1]),
             members |-> mean_hamming_weight(args[1])])

\* unstable, means = find_unstable_bits(samples, threshold);
\* extract_unstable_bits(samples, unstable)
CallFindUnstable ==
    LET unstable_indices == find_unstable_bits(args[1], args[2])
    IN  Returns("find_unstable_bits, extract_unstable_bits",
                [unstable_indices |-> unstable_indices,
                 extracted |-> extract_unstable_bits(args[1], unstable_indices)])

\* the two stability modes on one cohort: the stable mask of analyze_flip_rate
\* and the indices of find_unstable_bits(samples, threshold=0.1)
CallStabilityModes ==
    Returns("analyze_flip_rate, find_unstable_bits",
            [stable_mask |-> analyze_flip_rate(args[1]).stable_mask,
             unstable_indices |-> find_unstable_bits(args[1], Frac(1, 10))])

\* fingerprint_to_hex(fingerprint, num_bytes)
CallFingerprintToHex ==
    Returns("fingerprint_to_hex", fingerprint_to_hex(args[1], args[2]))

\* fingerprint_hash(fingerprint)
CallFingerprintHash == Returns("fingerprint_hash", fingerprint_hash(args[1]))

NextCalls ==
    \/ CallHammingDistance
    \/ CallDecodeThenPack
    \/ CallAnalyzeFlipRate
    \/ CallFingerprintHash
    \/ CallStatistics
    \/ CallDebias
    \/ CallGlobalRates
    \/ CallFindUnstable
    \/ CallStabilityModes
    \/ CallFingerprintToHex

SpecCalls == InitCalls /\ [][NextCalls]_vars

\* ------------------------------------------------------------ claim C1
\* The decoding the contract describes: the expansions, in order, of the pairs of
\* hexadecimal digits found at even offsets of the separator-stripped text.
RECURSIVE HexPairBits(_, _)
HexPairBits(s, i) ==
    IF i > Len(s) - 1 THEN <<>>
    ELSE (IF s[i] \in HexChars /\ s[i + 1] \in HexChars
          THEN [k \in 1..8 |->
                  ((16 * HexDigitValue[s[i]] + HexDigitValue[s[i + 1]]) \div Pow2(8 - k)) % 2]
          ELSE <<>>) \o HexPairBits(s, i + 2)

\* C1: load_sram_file returns exactly the concatenated MSB-first expansions of the
\* two-hex-digit pairs at even offsets of the stripped text; an unpaired trailing
\* character (and any pair that is not two hex digits) contributes no bits.
C1_DecodeIsHexPairExpansion ==
    pc = "decoded" =>
        decoded = HexPairBits(SelectSeq(text, LAMBDA ch : ch \notin {" ", "\r", "\n", "."}), 1)

\* ------------------------------------------------------------ claim C2
DirOf(c) == IF c = 1 THEN dir1 ELSE dir2

NoOutput ==
    /\ saved = {}
    /\ inter_hd = Nothing /\ inter_before = Nothing /\ inter_after = Nothing
    /\ \A c \in Cards :
          /\ fp[c] = Nothing /\ intra_hd[c] = Nothing /\ mask[c] = Nothing
          /\ debiased[c] = Nothing /\ intra_orig[c] = Nothing /\ intra_after[c] = Nothing
          /\ flip[c] = Nothing /\ unstable[c] = Nothing /\ unstable_samples[c] = Nothing

\* C2: when the cohort of either card has no usable sample, the script never gets
\* past loading: it stops with an error (ValueError) and no statistic, distance,
\* mask or fingerprint has been computed or saved.
C2_EmptyCohortFailsFirst ==
    (pc # "start" /\ \E c \in Cards : load_all_samples(DirOf(c)) = <<>>) =>
        /\ pc \in {"loaded", "error"}
        /\ pc = "error" => error = "ValueError"
        /\ min_len = Nothing
        /\ NoOutput

C2_Witness ==
    /\ pc = "error" /\ error = "ValueError"
    /\ Len(dir2) > 0 /\ samples[2] = <<>> /\ samples[1] # <<>>

\* ------------------------------------------------------------ claim C3
\* a distance was requested on two zero-length sequences of card c
ZeroLengthDistanceRequested(c) ==
    /\ intra_after[c] # Nothing
    /\ unstable_samples[c] # Nothing
    /\ Len(unstable_samples[c][1]) >= 2
    /\ Len(unstable_samples[c][1][1]) = 0

\* C3: a Hamming distance requested on two zero-length sequences fails with an
\* error; the script never completes with a numeric value for it.
C3_ZeroLengthDistanceFails ==
    (\E c \in Cards : ZeroLengthDistanceRequested(c)) => error # None

\* ------------------------------------------------------------ claim C4
\* the cohort of card c as load_all_samples returned it
Loaded(c) == load_all_samples(DirOf(c))

\* elements of a sequence
Range(s) == {s[k] : k \in 1..Len(s)}

\* got holds, member by member, the first L bits of orig, and no member of orig
\* is shorter than L
IsPrefixCohort(got, orig, L) ==
    /\ Len(got) = Len(orig)
    /\ \A k \in 1..Len(orig) :
          /\ Len(orig[k]) >= L
          /\ Len(got[k]) = L
          /\ \A i \in 1..L : got[k][i] = orig[k][i]

\* C4: after length normalisation every member of both cohorts has length
\* L = the smallest decoded length over both cohorts, and is the first L bits of
\* the member loaded at the same place; no member is added, removed or moved.
C4_NormalizedToCommonPrefix ==
    pc \notin {"start", "loaded", "error", "decode", "decoded"} =>
        /\ min_len # Nothing
        /\ \E c \in Cards : \E s \in Range(Loaded(c)) : Len(s) = min_len[1]
        /\ \A c \in Cards : IsPrefixCohort(samples[c], Loaded(c), min_len[1])

C4_Witness ==
    /\ pc = "normalized"
    /\ \E c \in Cards : \E k \in 1..Len(samples[c]) :
          /\ Len(Loaded(c)[k]) > Len(samples[c][k])
          /\ \E i \in 1..Len(samples[c][k]) :
                samples[c][k][i] # Loaded(c)[k][i + Len(samples[c][k])]

\* ------------------------------------------------------------ claim C5
\* positions of the cohort whose 1-rate is below 0.05: 20 * ones < n
Eligible(cohort) == {i \in 1..Len(cohort[1]) : 20 * Ones(cohort, i) < Len(cohort)}

SetBits(m) == {i \in 1..Len(m) : m[i] = 1}

\* C5: a returned XOR mask has length L, is 1 only at positions whose per-bit
\* 1-rate is strictly below 0.05, and has at most as many set bits as there are
\* such positions.
C5_MaskOnlyOnStableZero ==
    \A c \in Cards : mask[c] # Nothing =>
        /\ Len(mask[c][1]) = Len(samples[c][1])
        /\ \A i \in 1..Len(mask[c][1]) : mask[c][1][i] \in {0, 1}
        /\ SetBits(mask[c][1]) \subseteq Eligible(samples[c])
        /\ Cardinality(SetBits(mask[c][1])) <= Cardinality(Eligible(samples[c]))

C5_Witness ==
    \E c \in Cards :
        /\ mask[c] # Nothing
        /\ Len(samples[c]) >= 3
        /\ SetBits(mask[c][1]) # {}
        /\ \E i \in 1..Len(samples[c][1]) :
              i \notin Eligible(samples[c]) /\ 2 * Ones(samples[c], i) < Len(samples[c])

\* ------------------------------------------------------------ claim C6
\* the steps of the debias scripts that have just created a mask
MaskCreated == pc \in {"intra_mask1", "intra_mask2", "inter_mask1", "inter_mask2"}

\* C6: the mask of a cohort does not depend on the state of the process-wide
\* generator: a mask just created is the mask a fresh process computes for that
\* cohort, and two cards holding the same cohort get the same mask.
C6_MaskDeterministic ==
    /\ \A c \in Cards : (MaskCreated /\ mask[c] # Nothing) =>
          mask[c][1] = create_xor_mask(samples[c], Unseeded).result[2]
    /\ (mask[1] # Nothing /\ mask[2] # Nothing /\ samples[1] = samples[2]) =>
          mask[1] = mask[2]

C6_Witness ==
    /\ mask[1] # Nothing /\ mask[2] # Nothing
    /\ samples[1] = samples[2]
    /\ SetBits(mask[2][1]) # {}
    /\ rng.pos > 0

\* ------------------------------------------------------------ claim C7
\* C7: XOR-ing every member of a cohort with the cohort's mask leaves every
\* pairwise distance unchanged, so the intra-distance list after debiasing equals
\* the list before (it is never smaller).
C7_DebiasKeepsIntraDistances ==
    (script = "puf_xor_debias_HW_and_intra" /\ pc = "done") =>
        \A c \in Cards :
            /\ intra_after[c] = intra_orig[c]
            /\ \A a, b \in 1..Len(samples[c]) :
                  Differing(debiased[c][1][a], debiased[c][1][b], min_len[1])
                      = Differing(samples[c][a], samples[c][b], min_len[1])

C7_Witness ==
    /\ script = "puf_xor_debias_HW_and_intra" /\ pc = "done"
    /\ \E c \in Cards :
          /\ Len(samples[c]) >= 2
          /\ SetBits(mask[c][1]) # {}
          /\ debiased[c][1] # samples[c]
          /\ \E k \in 1..Len(intra_orig[c][1]) : intra_orig[c][1][k].num > 0

\* ------------------------------------------------------------ claim C8
MajorityOf(cohort, vector) ==
    /\ Len(vector) = Len(cohort[1])
    /\ \A i \in 1..Len(vector) :
          vector[i] = (IF 2 * Ones(cohort, i) >= Len(cohort) THEN 1 ELSE 0)
    /\ (\A k \in 1..Len(cohort) : cohort[k] = cohort[1]) => vector = cohort[1]

\* C8: the majority vector (the fingerprint, and analyze_flip_rate's majority
\* value) is 1 at a position iff at least half of the members are 1 there, a tie
\* giving 1; for a cohort of copies of one sequence it is that sequence.
C8_MajorityAtLeastHalf ==
    \A c \in Cards :
        /\ fp[c] # Nothing => MajorityOf(samples[c], fp[c][1])
        /\ flip[c] # Nothing => MajorityOf(samples[c], flip[c][1].majority_value)

C8_Witness ==
    \E c \in Cards :
        /\ fp[c] # Nothing
        /\ \E i \in 1..Len(samples[c][1]) :
              2 * Ones(samples[c], i) = Len(samples[c]) /\ fp[c][1][i] = 1
        /\ \E i \in 1..Len(samples[c][1]) : fp[c][1][i] = 0

\* ------------------------------------------------------------ claim C9
\* place of the pair {i, j}, i < j, in the lexicographic list of the pairs of 1..n
PairIndex(i, j, n) == (i - 1) * n - ((i - 1) * i) \div 2 + (j - i)

\* C9: compute_intra_hd returns n(n-1)/2 values for a cohort of n members, one
\* for each pair of distinct members {i, j}, i < j: no self-pair, no pair twice.
C9_IntraOnePerPair ==
    \A c \in Cards : intra_hd[c] # Nothing =>
        LET n == Len(samples[c])
            d == intra_hd[c][1]
        IN  /\ 2 * Len(d) = n * (n - 1)
            /\ \A i, j \in 1..n : i < j =>
                  /\ PairIndex(i, j, n) \in 1..Len(d)
                  /\ d[PairIndex(i, j, n)] =
                         Frac(Differing(samples[c][i], samples[c][j], min_len[1]), min_len[1])

C9_Witness ==
    \E c \in Cards :
        /\ intra_hd[c] # Nothing
        /\ Len(samples[c]) = 3
        /\ Len(intra_hd[c][1]) = 3
        /\ intra_hd[c][1][1] # intra_hd[c][1][2]
        /\ intra_hd[c][1][2] # intra_hd[c][1][3]

\* ----------------------------------------------------------- claim C10
\* C10: compute_inter_hd returns m * n values for cohorts of m and n members:
\* value (a - 1) * n + b is the distance between member a of the first cohort and
\* member b of the second (first-cohort-major order), never between two members
\* of one cohort.
C10_InterOnePerCrossPair ==
    inter_hd # Nothing =>
        LET m == Len(samples[1])
            n == Len(samples[2])
            d == inter_hd[1]
        IN  /\ Len(d) = m * n
            /\ \A a \in 1..m : \A b \in 1..n :
                  d[(a - 1) * n + b] =
                      Frac(Differing(samples[1][a], samples[2][b], min_len[1]), min_len[1])

C10_Witness ==
    /\ inter_hd # Nothing
    /\ Len(samples[1]) = 3 /\ Len(samples[2]) = 2
    /\ Len(inter_hd[1]) = 6
    /\ inter_hd[1][2] # inter_hd[1][3]
    /\ samples[1][1] # samples[1][2]
    /\ samples[2][1] # samples[2][2]

\* ----------------------------------------------------------- claim C11
\* C11: for non-empty a and b, hamming_distance(a, b) is the number of positions
\* among the first min(len a, len b) where they differ, divided by that minimum;
\* it lies between 0 and 1, equals hamming_distance(b, a), and is 0 when a = b.
C11_DistanceProperties ==
    (pc = "returned" /\ script = "hamming_distance") =>
        LET a == args[1]
            b == args[2]
            n == IF Len(a) <= Len(b) THEN Len(a) ELSE Len(b)
        IN  /\ ret = Frac(Cardinality({i \in 1..n : a[i] # b[i]}), n)
            /\ ret.den > 0 /\ 0 <= ret.num /\ ret.num <= ret.den
            /\ ret = hamming_distance(b, a)
            /\ a = b => ret.num = 0

C11_Witness ==
    /\ pc = "returned" /\ script = "hamming_distance"
    /\ Len(args[1]) > Len(args[2]) /\ Len(args[2]) >= 2
    /\ ret.num > 0 /\ ret.num < ret.den
    /\ args[1][Len(args[1])] # args[1][1]

\* ----------------------------------------------------------- claim C12
\* C12: writing a byte array as two hexadecimal digits per byte, decoding the text
\* with load_sram_file and packing the bits MSB-first gives the byte array back.
C12_DecodePackRoundTrip ==
    (pc = "returned" /\ script = "load_sram_file, packbits") => ret = args[1]

C12_Witness ==
    /\ pc = "returned" /\ script = "load_sram_file, packbits"
    /\ Len(args[1]) = 2 /\ args[1][1] = 171 /\ args[1][2] = 16
    /\ args[2] = LowerDigits /\ args[3] # <<>>
    /\ ret = <<171, 16>>

\* ----------------------------------------------------------- claim C13
\* places of the directory of card c whose capture decodes to at least one bit
Usable(c) ==
    {k \in 1..Len(DirOf(c)) :
        ~(\E j \in 1..Len(DirOf(c)[k]) : DirOf(c)[k][j] = InvalidByte)
        /\ load_sram_file(DirOf(c)[k]) # <<>>}

\* C13: loading keeps exactly the captures that decode to at least one bit, in
\* directory order; a capture that decodes to nothing or cannot be read removes
\* no other capture and does not end the run: the run ends in an error only when
\* a directory holds no usable capture at all.
C13_BadCaptureSkipped ==
    /\ pc = "loaded" =>
          /\ error = None
          /\ \A c \in Cards :
                /\ Len(samples[c]) = Cardinality(Usable(c))
                /\ \A k \in Usable(c) :
                      samples[c][Cardinality({j \in Usable(c) : j <= k})]
                          = load_sram_file(DirOf(c)[k])
    /\ pc = "error" => \E c \in Cards : Usable(c) = {}
    /\ pc = "normalized" => \A c \in Cards : Len(samples[c]) = Cardinality(Usable(c))

C13_Witness ==
    /\ pc = "normalized"
    /\ Len(dir1) = 3 /\ dir1[1] = CaptureUnreadable /\ dir1[2] = Capture0F /\ dir1[3] = CaptureBad
    /\ Len(samples[1]) = 1
    /\ Len(dir2) = 2 /\ Len(samples[2]) = 1

\* ----------------------------------------------------------- claim C14
\* C14: the stable mask is true at i iff flip_rate[i] < 0.1 (a rate of exactly
\* 0.1 is unstable); the stable and unstable counts are the sizes of the two
\* sets, which partition the positions, so they sum to L.
C14_StableMaskStrict ==
    (pc = "returned" /\ script = "analyze_flip_rate") =>
        LET L == Len(args[1][1])
            rate == ret.flip_rate
            below == {i \in 1..L : 10 * rate[i].num < rate[i].den}
        IN  /\ Len(rate) = L /\ Len(ret.stable_mask) = L
            /\ \A i \in 1..L : ret.stable_mask[i] = (i \in below)
            /\ ret.stable = Cardinality(below)
            /\ ret.unstable = Cardinality((1..L) \ below)
            /\ ret.stable + ret.unstable = L

C14_Witness ==
    /\ pc = "returned" /\ script = "analyze_flip_rate"
    /\ Len(args[1]) = 10
    /\ 10 * ret.flip_rate[1].num = ret.flip_rate[1].den
    /\ ret.stable_mask[1] = FALSE /\ ret.unstable = 1

\* ----------------------------------------------------------- claim C15
\* the two sequences hold the same values the same number of times
SameBag(s, t) ==
    /\ Len(s) = Len(t)
    /\ \A v \in Range(s) \cup Range(t) :
          Cardinality({k \in 1..Len(s) : s[k] = v}) = Cardinality({k \in 1..Len(t) : t[k] = v})

\* C15: the statistics of a cohort do not depend on the order of its members: the
\* per-bit rate, the majority vector, the flip rate, the stable mask and the XOR
\* mask of the reordered cohort are those of the cohort as given, and the intra-
\* and inter-distance lists hold the same values the same number of times.
C15_OrderInvariant ==
    (pc = "returned" /\ script = "statistics") =>
        LET cohort == args[1]
        IN  /\ ret.per_bit_mean = MeanPerBit(cohort)
            /\ ret.fingerprint = compute_fingerprint(cohort)
            /\ ret.flip = analyze_flip_rate(cohort)
            /\ ret.mask = create_xor_mask(cohort, Unseeded).result
            /\ SameBag(ret.intra, compute_intra_hd(cohort))
            /\ SameBag(ret.inter, compute_inter_hd(cohort, args[3]))
            /\ SameBag(ret.inter_from, compute_inter_hd(args[3], cohort))

C15_Witness ==
    /\ pc = "returned" /\ script = "statistics"
    /\ Len(args[1]) = 3
    /\ args[2] = <<3, 1, 2>>
    /\ ret.intra # compute_intra_hd(args[1])
    /\ ret.inter # compute_inter_hd(args[1], args[3])
    /\ ret.mask # ValueError /\ \E i \in 1..8 : ret.mask[2][i] = 1
    /\ \E i \in 1..8 : ret.flip.flip_rate[i].num > 0

\* ----------------------------------------------------------- claim C16
\* the bits followed by as many zero bits as reach a multiple of eight
ZeroPadded(bits) ==
    [i \in 1..(8 * ((Len(bits) + 7) \div 8)) |-> IF i <= Len(bits) THEN bits[i] ELSE 0]

\* byte k of the bytes is the eight bits from 8(k-1)+1 on, the first one weighing 128
IsPacked(bytes, bits) ==
    /\ 8 * Len(bytes) = Len(bits)
    /\ \A k \in 1..Len(bytes) :
          bytes[k] = 128 * bits[8 * k - 7] + 64 * bits[8 * k - 6] + 32 * bits[8 * k - 5]
                     + 16 * bits[8 * k - 4] + 8 * bits[8 * k - 3] + 4 * bits[8 * k - 2]
                     + 2 * bits[8 * k - 1] + bits[8 * k]

\* C16: the bytes fingerprint_hash digests are the fingerprint packed MSB-first and
\* zero-padded on the right to a byte boundary, and no other fingerprint of the
\* same length gives the same bytes, hence the same digest.
C16_PackedBytesInjective ==
    (pc = "returned" /\ script = "fingerprint_hash") =>
        /\ ret[1] = "sha256"
        /\ IsPacked(ret[2], ZeroPadded(args[1]))
        /\ \A other \in [1..Len(args[1]) -> {0, 1}] :
              other # args[1] => fingerprint_hash(other) # ret

C16_Witness ==
    /\ pc = "returned" /\ script = "fingerprint_hash"
    /\ Len(args[1]) = 9 /\ args[1][9] = 1 /\ args[1][1] = 0 /\ args[1][8] = 1
    /\ ret[2] = <<1, 128>>

\* ----------------------------------------------------------- claim C17
Debiased == pc = "returned" /\ script = "create_xor_mask, apply_xor_mask"

\* the global 1-rate g of a cohort of n members of L bits, as an exact fraction
GlobalRate(cohort) ==
    Frac(SumSeq([i \in 1..Len(cohort[1]) |-> Ones(cohort, i)]),
         Len(cohort) * Len(cohort[1]))

\* floor((0.5 - g) * L) in exact arithmetic, for g <= 0.5
FloorWanted(cohort) ==
    LET g == GlobalRate(cohort)
    IN  ((g.den - 2 * g.num) * Len(cohort[1])) \div (2 * g.den)

\* C17: for a cohort whose global 1-rate g is at most 0.5, create_xor_mask
\* raises no error and its mask has exactly min(floor((0.5 - g) * L), |eligible|)
\* set bits; when the eligible pool is smaller than floor((0.5 - g) * L), the
\* mask is 1 at every eligible position.
C17_MaskCountIsFloorOrPool ==
    (Debiased /\ ~Less(Frac(1, 2), GlobalRate(args[1]))) =>
        /\ ret.mask # ValueError
        /\ Cardinality(SetBits(ret.mask[2]))
              = Min(FloorWanted(args[1]), Cardinality(Eligible(args[1])))
        /\ Cardinality(Eligible(args[1])) < FloorWanted(args[1])
              => SetBits(ret.mask[2]) = Eligible(args[1])

\* ----------------------------------------------------------- claim C18
\* C18: for a cohort with global 1-rate g < 0.5, the global 1-rate g' of the
\* cohort after XOR-ing every member with the cohort's mask satisfies
\* g <= g' <= 0.5.
C18_DebiasTowardHalfNeverPast ==
    (Debiased /\ Less(GlobalRate(args[1]), Frac(1, 2))) =>
        /\ ret.debiased # Nothing
        /\ ~Less(GlobalRate(ret.debiased[1]), GlobalRate(args[1]))
        /\ ~Less(Frac(1, 2), GlobalRate(ret.debiased[1]))

\* a cohort of four members that debiasing moves strictly up and leaves below 0.5
C18_Witness ==
    /\ Debiased
    /\ ret.debiased # Nothing
    /\ Less(GlobalRate(args[1]), GlobalRate(ret.debiased[1]))
    /\ Less(GlobalRate(ret.debiased[1]), Frac(1, 2))
    /\ Len(args[1]) = 4

\* ----------------------------------------------------------- claim C19
\* the step of a script that applies the masks
MasksApplied == pc # pc' /\ pc' \in {"intra_applied", "inter_applied"}

\* got differs from orig exactly where m is 1, for every member
DiffersExactlyAt(got, orig, m) ==
    /\ Len(got) = Len(orig)
    /\ \A k \in 1..Len(orig) :
          /\ Len(got[k]) = Len(orig[k])
          /\ \A i \in 1..Len(orig[k]) : (got[k][i] # orig[k][i]) <=> (m[i] = 1)

\* C19: apply_xor_mask returns for each member a sequence that differs from the
\* original exactly at the positions where the cohort's mask is 1 (so not at a
\* position whose 1-rate is 0.05 or more), the one mask serving every member,
\* and leaves the cohort and the mask as they were.
C19_XorExactlyAtMaskFrame ==
    [][MasksApplied =>
          /\ samples' = samples
          /\ mask' = mask
          /\ \A c \in Cards :
                /\ DiffersExactlyAt(debiased'[c][1], samples[c], mask[c][1])
                /\ \A k \in 1..Len(samples[c]) : \A i \in 1..Len(samples[c][k]) :
                      20 * Ones(samples[c], i) >= Len(samples[c])
                          => debiased'[c][1][k][i] = samples[c][k][i]]_vars

\* masks are applied to a cohort of several members, one of them with a set bit
\* the mask leaves alone and all of them flipped where the mask is 1
C19_Witness ==
    /\ pc = "intra_applied"
    /\ \E c \in Cards :
          /\ Len(samples[c]) >= 2
          /\ SetBits(mask[c][1]) # {}
          /\ \E k \in 1..Len(samples[c]) : \E i \in 1..Len(samples[c][k]) :
                mask[c][1][i] = 0 /\ samples[c][k][i] = 1 /\ debiased[c][1][k][i] = 1
          /\ \A k \in 1..Len(samples[c]), i \in SetBits(mask[c][1]) :
                debiased[c][1][k][i] # samples[c][k][i]

\* ----------------------------------------------------------- claim C20
SameFrac(a, b) == a.num * b.den = b.num * a.den

\* C20: for a non-empty cohort of n members, the flip rate of position i is
\* min(p, 1 - p) for the position's 1-rate p = ones / n; so it lies in [0, 0.5],
\* and it is 0 everywhere when the cohort has one member.
C20_FlipRateIsMinority ==
    (pc = "returned" /\ script = "analyze_flip_rate") =>
        LET n == Len(args[1])
        IN  /\ Len(ret.flip_rate) = Len(args[1][1])
            /\ \A i \in 1..Len(ret.flip_rate) :
                  /\ SameFrac(ret.flip_rate[i],
                              Frac(Min(Ones(args[1], i), n - Ones(args[1], i)), n))
                  /\ ~Less(ret.flip_rate[i], Frac(0, 1))
                  /\ ~Less(Frac(1, 2), ret.flip_rate[i])
                  /\ n = 1 => SameFrac(ret.flip_rate[i], Frac(0, 1))

\* three members: position 1 has one 1 (the rate p), position 2 has two (1 - p)
C20_Witness ==
    /\ pc = "returned" /\ script = "analyze_flip_rate"
    /\ Len(args[1]) = 3 /\ Len(args[1][1]) = 2
    /\ Ones(args[1], 1) = 1 /\ Ones(args[1], 2) = 2
    /\ SameFrac(ret.flip_rate[1], Frac(1, 3))
    /\ SameFrac(ret.flip_rate[2], Frac(1, 3))

\* ----------------------------------------------------------- claim C21
RatesReturned == pc = "returned" /\ script = "global rates"

\* the number of 1 bits of a cohort
TotalOnes(cohort) == SumSeq([k \in 1..Len(cohort) |-> SumSeq(cohort[k])])

\* C21 as stated: the mean over the flattened bit matrix, the mean of the per-bit
\* rates and the mean of the members' Hamming weights are one and the same value.
C21_ThreeRatesEqual ==
    RatesReturned => ret.flattened = ret.per_bit /\ ret.per_bit = ret.members

\* |x * d - t| < 2^-32: the float x is t / d to within 2^-32 / d
CloseTo(x, t, d) ==
    LET diff == Carry([k \in 1..Limbs |-> x[k] * d - FromInt(t)[k]])
    IN  \/ diff[1] = 0 /\ diff[2] = 0 /\ diff[3] = 0
        \/ diff[1] = 0 - 1 /\ diff[2] = Base - 1 /\ diff[3] = Base - 1

\* C21 amended: each of the three float64 values is (number of 1 bits) / (n * L)
\* to within rounding error, here 2^-32 / (n * L).
C21_ThreeRatesAgreeToRounding ==
    RatesReturned =>
        LET t == TotalOnes(args[1])
            d == Len(args[1]) * Len(args[1][1])
        IN  /\ CloseTo(ret.flattened, t, d)
            /\ CloseTo(ret.per_bit, t, d)
            /\ CloseTo(ret.members, t, d)

\* three members whose per-bit mean differs from the flattened mean in the last bit
C21_Witness ==
    /\ RatesReturned
    /\ Len(args[1]) = 3
    /\ ret.per_bit # ret.flattened
    /\ ret.members = ret.flattened
    /\ FloatLess(ret.per_bit, ret.flattened)

\* ----------------------------------------------------------- claim C22
UnstableReturned == pc = "returned" /\ script = "find_unstable_bits, extract_unstable_bits"

\* theta < (ones of position i) / n < 1 - theta
StrictlyBetween(cohort, i, theta) ==
    /\ theta.num * Len(cohort) < Ones(cohort, i) * theta.den
    /\ Ones(cohort, i) * theta.den < (theta.den - theta.num) * Len(cohort)

\* C22: find_unstable_bits returns, in ascending order, exactly the positions whose
\* 1-rate lies strictly between theta and 1 - theta, and extract_unstable_bits
\* gives every member its bits at those positions, in that order.
C22_UnstableStrictAscending ==
    UnstableReturned =>
        LET found == ret.unstable_indices
        IN  /\ \A j \in 1..(Len(found) - 1) : found[j] < found[j + 1]
            /\ Range(found) = {i \in 1..Len(args[1][1]) : StrictlyBetween(args[1], i, args[2])}
            /\ Len(ret.extracted) = Len(args[1])
            /\ \A k \in 1..Len(args[1]) :
                  /\ Len(ret.extracted[k]) = Len(found)
                  /\ \A j \in 1..Len(found) : ret.extracted[k][j] = args[1][k][found[j]]

\* four members, theta = 0.25: a position with 1-rate exactly 0.25 is left out,
\* and several positions are selected
C22_Witness ==
    /\ UnstableReturned
    /\ args[2] = Frac(1, 4) /\ Len(args[1]) = 4
    /\ \E i \in 1..Len(args[1][1]) : Ones(args[1], i) = 1 /\ i \notin Range(ret.unstable_indices)
    /\ Len(ret.unstable_indices) >= 2
    /\ \E k \in 1..4 : \E j \in 1..Len(ret.unstable_indices) : ret.extracted[k][j] = 1

\* ----------------------------------------------------------- claim C23
\* C23: create_xor_mask returns a mask of length L for every non-empty cohort;
\* for a cohort whose global 1-rate is above 0.5 the mask is all-zero.
C23_MaskForEveryCohort ==
    Debiased =>
        /\ ret.mask # ValueError
        /\ Len(ret.mask[2]) = Len(args[1][1])
        /\ Less(Frac(1, 2), GlobalRate(args[1])) => SetBits(ret.mask[2]) = {}

\* ----------------------------------------------------------- claim C24
\* bits 8k+1 .. 8k+8 of the decoded sequence (k counted from 0) are the MSB-first
\* expansion of the two hexadecimal digits at offset 2k of the stripped text
AlignedWithPair(bits, stripped, k) ==
    /\ 2 * k + 2 <= Len(stripped)
    /\ stripped[2 * k + 1] \in HexChars /\ stripped[2 * k + 2] \in HexChars
    /\ \A j \in 1..8 :
          bits[8 * k + j]
              = ((16 * HexDigitValue[stripped[2 * k + 1]] + HexDigitValue[stripped[2 * k + 2]])
                    \div Pow2(8 - j)) % 2

\* C24: in every decoded sequence the k-th group of eight bits is the expansion of
\* the k-th two-character pair of the separator-stripped text, so a pair that does
\* not parse never moves the bits of a later pair to an earlier position.
C24_BitsAlignedWithPairs ==
    pc = "decoded" =>
        \A k \in 0..((Len(decoded) \div 8) - 1) :
            AlignedWithPair(decoded, StripSeparators(text), k)

\* ----------------------------------------------------------- claim C25
\* C25: for one cohort and the threshold 0.1, a position is selected by the
\* unstable-bit mode iff it is not in the stable mask, so every position belongs
\* to exactly one of the two sets.
C25_ModesComplementary ==
    (pc = "returned" /\ script = "analyze_flip_rate, find_unstable_bits") =>
        \A i \in 1..Len(args[1][1]) :
            (i \in Range(ret.unstable_indices)) <=> ~ret.stable_mask[i]

\* ----------------------------------------------------------- claim C26
\* the byte values a hexadecimal preview shows
PreviewedBytes(hex_str) == ParseBytes(StripSeparators(hex_str), 1)

\* C26: the byte values fingerprint_to_hex renders are the first
\* min(num_bytes, ceil(L / 8)) bytes of the MSB-first, right-zero-padded packing
\* that fingerprint_hash digests, the final partial byte included.
C26_PreviewIsPackedPrefix ==
    (pc = "returned" /\ script = "fingerprint_to_hex") =>
        PreviewedBytes(ret)
            = Prefix(packbits(args[1]), Min(args[2], (Len(args[1]) + 7) \div 8))

====
